---- MODULE Spec2Model ----
(***************************************************************************)
(* The verify-owners plugin (package verifyowners): one pull-request event *)
(* is handled by handlePullRequest/handle.  The model follows handle step  *)
(* by step; every call to an external collaborator (GitHub client, git     *)
(* client, file system, roster over HTTP) draws its outcome from a small   *)
(* set.  Successive events on the same pull request are delivered one      *)
(* after the other; the label and the posted reviews persist between them. *)
(* A second specification, SpecConcurrent, runs two calls of handle at the *)
(* same time, their steps interleaved.  Two more specifications follow the *)
(* handlers of the invalidcommitmsg plugin (SpecInvalidCommitMsg) and of   *)
(* the cherrypick plugin (SpecCherrypick).                                 *)
(***************************************************************************)
EXTENDS Integers, Sequences, FiniteSets, TLC

\* ------------------------------------------------------------------ bounds
\* at most this many files in one change listing
MaxChanges == 3
\* at most this many events delivered for the pull request
MaxRuns == 2

\* --------------------------------------------------------------- constants
ownersFileName == "OWNERS"
ownersAliasesFileName == "OWNERS_ALIASES"

\* pull-request event actions: the three change-indicating ones and two others
EventActions == {"opened", "reopened", "synchronize", "edited", "closed"}

\* ------------------------------------------------------------------ paths
\* A file name is the sequence of its path components.
FileList == << <<"OWNERS">>, <<"OWNERS_ALIASES">>, <<"README">>,
               <<"pkg", "OWNERS">>, <<"pkg", "OWNERS_ALIASES">> >>

\* filepath.Base: the last component
Base(p) == p[Len(p)]

\* filepath.Dir: "." for a file of the repository root
Dir(p) == IF Len(p) = 1 THEN <<".">> ELSE SubSeq(p, 1, Len(p) - 1)

IsOwnersAliasesFileByBase(p) == Base(p) = ownersAliasesFileName

\* change.Filename == ownersAliasesFileName compares the whole name
IsOwnersAliasesFile(p) == p = <<ownersAliasesFileName>>

IsOwnersFile(p) == Base(p) = ownersFileName

\* ---------------------------------------------------------------- patches
\* A patch is the sequence of the lines of a unified-diff fragment.
HunkLine(oldLen, newLine, newLen) ==
    [tag |-> "@@", oldLen |-> oldLen, newLine |-> newLine, newLen |-> newLen]

BodyLine(tag) == [tag |-> tag, oldLen |-> 0, newLine |-> 0, newLen |-> 0]

\* @@ -1,3 +1,4 @@ : line 2 replaced, line 4 added; new line 4 is at position 5
PatchMixed == << HunkLine(3, 1, 4), BodyLine(" "), BodyLine("-"), BodyLine("+"),
                 BodyLine(" "), BodyLine("+") >>

\* @@ -1,3 +1,4 @@ : one line added after line 2; new line 4 is a context line
PatchContext == << HunkLine(3, 1, 4), BodyLine(" "), BodyLine(" "), BodyLine("+"),
                   BodyLine(" ") >>

\* @@ -1,3 +1,4 @@ with two of its lines only: the hunk ends before its count
PatchTruncated == << HunkLine(3, 1, 4), BodyLine(" "), BodyLine("+") >>

RECURSIVE HunkBody(_, _, _, _, _, _)
RECURSIVE AddedLinesFrom(_, _, _)

\* the hunks from line i on (i is the 0-based index of the code plus one)
AddedLinesFrom(lines, i, result) ==
    IF i > Len(lines) THEN [err |-> FALSE, al |-> result]
    ELSE IF lines[i].tag # "@@" THEN [err |-> TRUE, al |-> << >>]
    ELSE HunkBody(lines, i, lines[i], 0, 0, result)

\* the body of one hunk: i is the line consumed last
HunkBody(lines, i, hunk, oldAdd, newAdd, result) ==
    IF ~(oldAdd < hunk.oldLen \/ newAdd < hunk.newLen)
    THEN AddedLinesFrom(lines, i + 1, result)
    ELSE IF i + 1 > Len(lines) THEN [err |-> TRUE, al |-> << >>]
    ELSE LET l == lines[i + 1] IN
         CASE l.tag = " " -> HunkBody(lines, i + 1, hunk, oldAdd + 1, newAdd + 1, result)
           [] l.tag = "-" -> HunkBody(lines, i + 1, hunk, oldAdd + 1, newAdd, result)
           [] l.tag = "+" -> HunkBody(lines, i + 1, hunk, oldAdd, newAdd + 1,
                                      ((hunk.newLine + newAdd) :> i) @@ result)
           [] OTHER -> [err |-> TRUE, al |-> << >>]

\* golint.AddedLines: absolute line of the new file -> position in the patch,
\* for the added lines only
AddedLines(patch) ==
    IF patch = << >> THEN [err |-> FALSE, al |-> << >>]
    ELSE AddedLinesFrom(patch, 1, << >>)

\* ---------------------------------------------------------- parse errors
\* The text of a parse error is a sequence of words.
NoErr == << >>
ErrLine4 == <<"yaml:", "line", "4", "did", "not", "find", "expected", "key">>
ErrNoLine == <<"yaml:", "unexpected", "end", "of", "stream">>
ErrFlat == <<"yaml:", "line", "2", "cannot", "unmarshal", "into", "SimpleConfig">>

Digits == {"1", "2", "3", "4", "5"}

\* strconv.Atoi on the words the expression `line (\d+)` can capture
Atoi(w) == CASE w = "1" -> 1 [] w = "2" -> 2 [] w = "3" -> 3 [] w = "4" -> 4
             [] w = "5" -> 5

\* regexp `line (\d+)`, FindStringSubmatch: the number of the leftmost match,
\* << >> when the text has none
LineNumberMatches(text) ==
    LET hits == {k \in 1..(Len(text) - 1) : text[k] = "line" /\ text[k + 1] \in Digits}
    IN IF hits = {} THEN << >>
       ELSE LET k == CHOOSE h \in hits : \A g \in hits : h <= g
            IN <<text[k], text[k + 1]>>

ErrorLineAbsolute(text, patch) ==
    IF Len(LineNumberMatches(text)) > 1 THEN Atoi(LineNumberMatches(text)[2]) ELSE 1

\* the line an error is bound to: 1 by default, the patch position of the
\* absolute line the error text names when the patch has that line
ErrorLine(text, patch) ==
    LET lineNumberMatches == LineNumberMatches(text) IN
    IF Len(lineNumberMatches) > 1
    THEN LET absoluteLineNumber == Atoi(lineNumberMatches[2])
             r == AddedLines(patch)
         IN IF r.err THEN 1
            ELSE IF absoluteLineNumber \in DOMAIN r.al THEN r.al[absoluteLineNumber]
            ELSE 1
    ELSE 1

\* ------------------------------------------------- file contents (inputs)
\* the role lists of one OWNERS configuration
Config(approvers, reviewers, requiredReviewers, labels) ==
    [Approvers |-> approvers, Reviewers |-> reviewers,
     RequiredReviewers |-> requiredReviewers, Labels |-> labels]

EmptyConfig == Config(<< >>, << >>, << >>, << >>)

\* The bytes of an OWNERS file, given as what the two schemas make of them:
\* the flat parse (its error text and its configuration) and the filtered
\* parse (its error text and its filters).
OwnersBytes(simpleErr, simple, fullErr, filters) ==
    [simpleErr |-> simpleErr, simple |-> simple, fullErr |-> fullErr, filters |-> filters]

FlatGood == OwnersBytes(NoErr, Config(<<"alice">>, <<"bob">>, << >>, <<"lgtm">>), NoErr, << >>)
FlatTeam == OwnersBytes(NoErr, Config(<<"team">>, << >>, << >>, << >>), NoErr, << >>)
FlatNoApprovers == OwnersBytes(NoErr, Config(<< >>, <<"alice">>, << >>, << >>), NoErr, << >>)
FlatBlacklisted == OwnersBytes(NoErr, Config(<< >>, <<"carol">>, << >>, <<"lgtm", "bad">>),
                               NoErr, << >>)
Filtered == OwnersBytes(NoErr, EmptyConfig, NoErr,
                        << Config(<<"alice">>, << >>, << >>, << >>),
                           Config(<< >>, <<"bob">>, << >>, <<"lgtm">>) >>)
BrokenLine4 == OwnersBytes(ErrLine4, EmptyConfig, ErrLine4, << >>)
BrokenNoLine == OwnersBytes(ErrNoLine, EmptyConfig, ErrNoLine, << >>)
\* bytes the flat schema rejects and the filtered schema accepts
FilteredOnly == OwnersBytes(ErrFlat, EmptyConfig, NoErr,
                            << Config(<<"bob">>, << >>, <<"team">>, << >>) >>)
\* bytes the flat schema reads as an empty declaration and the filtered
\* schema rejects
FilteredBroken == OwnersBytes(NoErr, EmptyConfig, ErrLine4, << >>)

OwnersContents == {FlatGood, FlatTeam, FlatNoApprovers, FlatBlacklisted, Filtered,
                   BrokenLine4, BrokenNoLine, FilteredOnly, FilteredBroken}

\* The bytes of an OWNERS_ALIASES file: the error text of its parse and the
\* alias map it defines.
AliasesBytes(err, aliases) == [err |-> err, aliases |-> aliases]

NoAliases == [a \in {} |-> {}]
AliasesTeam == AliasesBytes(NoErr, [a \in {"team"} |-> {"alice", "bob"}])
AliasesNone == AliasesBytes(NoErr, NoAliases)
AliasesBrokenLine4 == AliasesBytes(ErrLine4, NoAliases)
AliasesBrokenNoLine == AliasesBytes(ErrNoLine, NoAliases)

AliasesContents == {AliasesTeam, AliasesNone, AliasesBrokenLine4, AliasesBrokenNoLine}

\* ioutil.ReadFile failed
ReadFailure == [failed |-> TRUE]

\* repoowners.ParseSimpleConfig
ParseSimpleConfig(b) == [err |-> b.simpleErr, Config |-> b.simple]

\* repoowners.ParseFullConfig
ParseFullConfig(b) == [err |-> b.fullErr, Filters |-> b.filters]

\* SimpleConfig.Empty
Empty(simple) ==
    /\ Len(simple.Config.Approvers) = 0
    /\ Len(simple.Config.Reviewers) = 0
    /\ Len(simple.Config.RequiredReviewers) = 0
    /\ Len(simple.Config.Labels) = 0

\* repoowners.ParseAliasesConfig: an empty alias map comes with an error
ParseAliasesConfig(b) ==
    [err |-> b.err, aliases |-> IF b.err # NoErr THEN NoAliases ELSE b.aliases]

\* RepoAliases.ExpandAllAliases: every user of every alias
ExpandAllAliases(repoAliases) == UNION {repoAliases[a] : a \in DOMAIN repoAliases}

\* sets.NewString(list...)
NewString(list) == {list[k] : k \in DOMAIN list}

\* ------------------------------------------------------------ the roster
\* The org.yaml document served for the organisation: its members list.
RosterDocs == {{"alice"}, {"alice", "bob"}}

\* what one HTTP fetch of the document can end in
FetchOutcomes == {"ok", "getFailed", "readFailed", "unmarshalFailed"}

\* org.Config{}: the zero value
ZeroOrgConfig == [Members |-> << >>]

\* yaml.Unmarshal(data, config) is handed the struct by value: whatever it
\* decodes from data, the caller's config keeps the value it had
ConfigAfterUnmarshal(config, data) == config

getMembersForOrgSwallowsError(outcome, data) == [members |-> {}, err |-> FALSE]

\* getMembersForOrg: the member set and whether it failed
getMembersForOrg(outcome, data) ==
    IF outcome # "ok" THEN [members |-> {}, err |-> TRUE]
    ELSE [members |-> NewString(ConfigAfterUnmarshal(ZeroOrgConfig, data).Members),
          err |-> FALSE]

\* getNonMembersFromLists
RECURSIVE NonMembersTotal(_, _, _)
NonMembersTotal(repoAliases, lists, totalUsers) ==
    IF lists = << >> THEN totalUsers
    ELSE LET list == Head(lists)
             united == totalUsers \cup NewString(list)
             \* if it is an alias, remove it
             kept == united \ {login \in NewString(list) : login \in DOMAIN repoAliases}
         IN NonMembersTotal(repoAliases, Tail(lists), kept)

TotalUsersWithAliasNames(repoAliases, lists) == UNION {NewString(lists[k]) : k \in DOMAIN lists}

\* getNonMembersFromLists: totalUsers once every list has been gone through
TotalUsers(repoAliases, lists) == NonMembersTotal(repoAliases, lists, {})

getNonMembersFromLists(repoAliases, members, lists) ==
    TotalUsers(repoAliases, lists) \ members

\* ------------------------------------------------------------------ state
VARIABLES
    pc,                             \* where the handler of the current event is
    event,                          \* pre.Action of the current event
    changes,                        \* the listing GetPullRequestChanges returned
    tree,                           \* the checked-out files: name -> bytes, or ReadFailure
    io,                             \* how the listing and the clone of this event ended
    repoAliases,
    wrongOwnersFiles,
    ownersAliasesFileError,
    wrongOwnersAliasesFilePresent,
    members,
    nonMembers,
    idx,                            \* the OWNERS file the loop is at
    totalUsers,                     \* per checked OWNERS file: the users held against the roster
    ret,                            \* what the handler returned: "pending", "nil" or an error
    calls,                          \* AddLabel/RemoveLabel/CreateReview calls of this event
    fetched,                        \* the outcome of every getMembersForOrg call of this event
    logs,                           \* what this event logged as an error
    roster,                         \* the members list of the served org.yaml
    prLabel,                        \* the pull request carries the invalid-owners label
    prReviews,                      \* number of reviews posted on the pull request
    runs,                           \* events delivered so far
    labelAtStart,                   \* prLabel when the current event was delivered
    reviewsAtStart,                 \* prReviews when the current event was delivered
    proc,                           \* concurrent handlers: input, position and result of each
    frames,                         \* concurrent handlers: the locals of handle, per frame
    icm,                            \* the invalidcommitmsg plugin: its pull request and its run
    cpk                             \* the cherrypick plugin: its pull request and its run

vars == <<pc, event, changes, tree, io, repoAliases, wrongOwnersFiles,
          ownersAliasesFileError, wrongOwnersAliasesFilePresent, members, nonMembers,
          idx, totalUsers, ret, calls, fetched, logs, roster, prLabel, prReviews, runs, labelAtStart,
          reviewsAtStart, proc, frames, icm, cpk>>

\* the handlers of events that arrive together
concurrent == <<proc, frames>>

\* the two other plugins of the package tree
others == <<icm, cpk>>

delivery == <<runs, labelAtStart, reviewsAtStart>>

pr == <<prLabel, prReviews>>

\* Owners.LabelsBlackList of the plugin configuration
labelsBlackList == <<"bad", "hold">>

\* messageWithLine and its zero value
messageWithLine(line, message) == [line |-> line, message |-> message]

Message(kind, err, labels) == [kind |-> kind, err |-> err, labels |-> labels]

ZeroMessageWithLine == messageWithLine(0, Message("", NoErr, {}))

NoFiles == [f \in {} |-> ZeroMessageWithLine]

\* no OWNERS file has been held against the roster
NoUsers == [f \in {} |-> {}]

\* ------------------------------------------------------- the change listing
ListFailure == <<[Filename |-> <<"">>, Patch |-> << >>]>>

\* the patch GitHub reports for a file: line 4 is an added line of the patch
\* of OWNERS and a context line of the patch of OWNERS_ALIASES; the patch of
\* pkg/OWNERS is cut short
PatchFor(p) ==
    CASE p = <<"pkg", "OWNERS">> -> PatchTruncated
      [] p = <<"OWNERS_ALIASES">> -> PatchContext
      [] OTHER -> PatchMixed

\* the listings: files of FileList in its order, each at most once
ChangeLists ==
    {[k \in 1..Len(is) |-> [Filename |-> FileList[is[k]], Patch |-> PatchFor(FileList[is[k]])]] :
        is \in {js \in UNION {[1..n -> DOMAIN FileList] : n \in 0..MaxChanges} :
                   \A a, b \in DOMAIN js : a < b => js[a] < js[b]}}

\* the OWNERS_ALIASES change of the listing (the last one, as the loop keeps it)
ModifiedOwnerAliasesFile(chs) ==
    chs[CHOOSE k \in DOMAIN chs :
            /\ IsOwnersAliasesFile(chs[k].Filename)
            /\ \A j \in DOMAIN chs : IsOwnersAliasesFile(chs[j].Filename) => j <= k]

OwnerAliasesModified(chs) == \E k \in DOMAIN chs : IsOwnersAliasesFile(chs[k].Filename)

IsOwnersChange(c) == IsOwnersFile(c.Filename)

ModifiedOwnersFiles(chs) == SelectSeq(chs, IsOwnersChange)

\* nothing ownership-related changed
NothingToDo(chs) == Len(ModifiedOwnersFiles(chs)) = 0 /\ ~OwnerAliasesModified(chs)

\* the files of the checkout the handler may read
ReadableFiles(chs) ==
    {chs[k].Filename : k \in {j \in DOMAIN chs : IsOwnersFile(chs[j].Filename)}}
        \cup {<<ownersAliasesFileName>>}

\* the checkouts: every readable file holds bytes of its kind or cannot be read
Trees(chs) ==
    {t \in [ReadableFiles(chs) -> OwnersContents \cup AliasesContents \cup {ReadFailure}] :
        \A f \in ReadableFiles(chs) :
            \/ t[f] = ReadFailure
            \/ IsOwnersAliasesFile(f) /\ t[f] \in AliasesContents
            \/ ~IsOwnersAliasesFile(f) /\ t[f] \in OwnersContents}

NoTree == [f \in {} |-> ReadFailure]

\* nothing listed, nothing cloned
NoIo == [list |-> "no", clone |-> "no"]

\* ------------------------------------------------------------------- Init
Init ==
    /\ pc = "start"
    /\ event = ""
    /\ changes = << >>
    /\ tree = NoTree
    /\ io = NoIo
    /\ repoAliases = NoAliases
    /\ wrongOwnersFiles = NoFiles
    /\ ownersAliasesFileError = ZeroMessageWithLine
    /\ wrongOwnersAliasesFilePresent = FALSE
    /\ members = {}
    /\ nonMembers = {}
    /\ idx = 1
    /\ totalUsers = NoUsers
    /\ ret = "pending"
    /\ calls = << >>
    /\ fetched = << >>
    /\ logs = {}
    /\ roster \in RosterDocs
    /\ prLabel = FALSE
    /\ prReviews = 0
    /\ runs = 1
    /\ labelAtStart = FALSE
    /\ reviewsAtStart = 0
    /\ proc = << >>
    /\ frames = << >>
    /\ icm = << >>
    /\ cpk = << >>

\* the handler returns v
Return(v) == pc' = "done" /\ ret' = v

\* ioutil.ReadFile failed: the failure is logged and the handler returns nil
ReadFailedReturnsError == logs' = logs \cup {"Failed to read"} /\ Return("read failed")

ReadFailed == logs' = logs \cup {"Failed to read"} /\ Return("nil")

locals == <<changes, tree, io, repoAliases, wrongOwnersFiles, ownersAliasesFileError,
            wrongOwnersAliasesFilePresent, members, nonMembers, idx, totalUsers, calls, fetched, logs>>

IsChangeActionOrEdited(a) == a \in {"opened", "reopened", "synchronize", "edited"}

\* handlePullRequest: only the change-indicating actions reach handle
IsChangeAction(a) == a = "opened" \/ a = "reopened" \/ a = "synchronize"

HandlePullRequest ==
    /\ pc = "start"
    /\ \E a \in EventActions :
        /\ event' = a
        /\ IF ~IsChangeAction(a) THEN Return("nil")
           ELSE pc' = "changes" /\ ret' = ret
    /\ UNCHANGED <<locals, roster, pr, delivery, concurrent, others>>

\* handle: ghc.GetPullRequestChanges and the two filters over its result
GetPullRequestChanges ==
    /\ pc = "changes"
    /\ \E r \in ChangeLists \cup {ListFailure} :
        IF r = ListFailure
        THEN /\ Return("error getting PR changes")
             /\ changes' = changes
             /\ io' = [io EXCEPT !.list = "failed"]
        ELSE /\ changes' = r
             /\ io' = [io EXCEPT !.list = "ok"]
             /\ IF NothingToDo(r) THEN Return("nil")
                ELSE pc' = "clone" /\ ret' = ret
    /\ UNCHANGED <<event, tree, repoAliases, wrongOwnersFiles, ownersAliasesFileError,
                   wrongOwnersAliasesFilePresent, members, nonMembers, idx, totalUsers, calls, fetched,
                   logs, roster, pr, delivery, concurrent, others>>

\* where handle goes once the OWNERS_ALIASES block is behind it
AfterAliases(chs) ==
    IF Len(ModifiedOwnersFiles(chs)) # 0 /\ ~OwnerAliasesModified(chs) THEN "loadAliases"
    ELSE IF Len(ModifiedOwnersFiles(chs)) = 0 THEN "react"
    ELSE "owners"

\* handle: gc.Clone and r.CheckoutPullRequest
Clone ==
    /\ pc = "clone"
    /\ \E o \in {"ok", "clone failed", "checkout failed"} :
        /\ io' = [io EXCEPT !.clone = o]
        /\ IF o # "ok" THEN Return(o) /\ tree' = tree
           ELSE /\ \E t \in Trees(changes) : tree' = t
                /\ pc' = IF OwnerAliasesModified(changes) THEN "aliases"
                         ELSE AfterAliases(changes)
                /\ ret' = ret
    /\ UNCHANGED <<event, changes, repoAliases, wrongOwnersFiles, ownersAliasesFileError,
                   wrongOwnersAliasesFilePresent, members, nonMembers, idx, totalUsers, calls, fetched,
                   logs, roster, pr, delivery, concurrent, others>>

\* what binding an error to a line logs: golint.AddedLines failing
AddedLinesLogs(text, patch) ==
    IF Len(LineNumberMatches(text)) > 1 /\ AddedLines(patch).err
    THEN {"Failed to compute added lines"} ELSE {}

CannotParse(err, patch) ==
    messageWithLine(ErrorLine(err, patch), Message("Cannot parse file", err, {}))

StopOnAliasesError(err) == IF err # NoErr THEN "done" ELSE "aliasMembers"

\* a parse error of OWNERS_ALIASES is put on record and handle goes on
AfterAliasesParse(err) == "aliasMembers"

\* handle: the OWNERS_ALIASES file of the pull request is read and parsed
CheckOwnersAliases ==
    /\ pc = "aliases"
    /\ LET b == tree[<<ownersAliasesFileName>>] IN
       IF b = ReadFailure
       THEN /\ ReadFailed
            /\ UNCHANGED <<repoAliases, ownersAliasesFileError, wrongOwnersAliasesFilePresent>>
       ELSE LET parsed == ParseAliasesConfig(b)
                patch == ModifiedOwnerAliasesFile(changes).Patch
            IN /\ repoAliases' = parsed.aliases
               /\ IF parsed.err # NoErr
                  THEN /\ ownersAliasesFileError' = CannotParse(parsed.err, patch)
                       /\ wrongOwnersAliasesFilePresent' = TRUE
                       /\ logs' = logs \cup AddedLinesLogs(parsed.err, patch)
                  ELSE UNCHANGED <<ownersAliasesFileError, wrongOwnersAliasesFilePresent, logs>>
               /\ pc' = AfterAliasesParse(parsed.err)
               /\ ret' = ret
    /\ UNCHANGED <<event, changes, tree, io, wrongOwnersFiles, members, nonMembers, idx, totalUsers,
                   calls, fetched, roster, pr, delivery, concurrent, others>>

\* the roster is asked for when the member set at hand is empty
NeedMembers(ms) == Cardinality(ms) = 0

AliasMembersOnRoster(aliases, ms) == ExpandAllAliases(aliases) \cap ms

\* the users of the aliases that the member set lacks
AliasNonMembers(aliases, ms) == ExpandAllAliases(aliases) \ ms

\* handle: the members of every alias of the modified OWNERS_ALIASES file
AliasMembers ==
    /\ pc = "aliasMembers"
    /\ IF NeedMembers(members)
       THEN \E o \in FetchOutcomes :
              LET m == getMembersForOrg(o, roster) IN
              /\ fetched' = Append(fetched, o)
              /\ members' = m.members
              /\ IF m.err
                 THEN Return("failed to get members") /\ nonMembers' = nonMembers
                 ELSE /\ nonMembers' = AliasNonMembers(repoAliases, m.members)
                      /\ pc' = AfterAliases(changes)
                      /\ ret' = ret
       ELSE /\ nonMembers' = AliasNonMembers(repoAliases, members)
            /\ pc' = AfterAliases(changes)
            /\ UNCHANGED <<fetched, members, ret>>
    /\ UNCHANGED <<event, changes, tree, io, repoAliases, wrongOwnersFiles,
                   ownersAliasesFileError, wrongOwnersAliasesFilePresent, idx, totalUsers, calls, logs,
                   roster, pr, delivery, concurrent, others>>

\* handle: OWNERS changed and OWNERS_ALIASES did not: the alias file is read
\* and parsed, and the result of the parse is returned
LoadOwnersAliases ==
    /\ pc = "loadAliases"
    /\ LET b == tree[<<ownersAliasesFileName>>] IN
       IF b = ReadFailure
       THEN /\ ReadFailed
            /\ repoAliases' = repoAliases
       ELSE LET parsed == ParseAliasesConfig(b) IN
            /\ repoAliases' = parsed.aliases
            /\ Return(IF parsed.err # NoErr THEN "aliases parse error" ELSE "nil")
            /\ logs' = logs
    /\ UNCHANGED <<event, changes, tree, io, wrongOwnersFiles, ownersAliasesFileError,
                   wrongOwnersAliasesFilePresent, members, nonMembers, idx, totalUsers, calls, fetched,
                   roster, pr, delivery, concurrent, others>>

\* the role lists of a filtered configuration: those of its filters, appended
RECURSIVE AppendFilters(_, _)
AppendFilters(acc, filters) ==
    IF filters = << >> THEN acc
    ELSE LET config == Head(filters) IN
         AppendFilters(Config(acc.Approvers \o config.Approvers,
                              acc.Reviewers \o config.Reviewers,
                              acc.RequiredReviewers \o config.RequiredReviewers,
                              acc.Labels \o config.Labels),
                       Tail(filters))

\* sets.String.HasAny
HasAny(set, items) == \E k \in DOMAIN items : items[k] \in set

NoError == messageWithLine(0, Message("", NoErr, {}))

LabelsOfFile(labels, blackList) == NewString(labels)

\* the labels the message about blacklisted labels lists
BlacklistedLabels(labels, blackList) == NewString(labels) \cap NewString(blackList)

UseFullOnErrorOnly(simple) == simple.err # NoErr

\* the filtered schema is tried when the flat one fails or yields nothing
UseFull(simple) == simple.err # NoErr \/ Empty(simple)

CheckOwnersBytesApproversFirst(c, b) ==
    LET simple == ParseSimpleConfig(b)
        full == ParseFullConfig(b)
        useFull == UseFull(simple)
        lists == IF useFull THEN AppendFilters(EmptyConfig, full.Filters) ELSE simple.Config
    IN IF useFull /\ full.err # NoErr
       THEN [error |-> CannotParse(full.err, c.Patch), lists |-> EmptyConfig]
       ELSE IF Dir(c.Filename) = <<".">> /\ Len(lists.Approvers) = 0
       THEN [error |-> messageWithLine(1, Message("No approvers defined in this root directory OWNERS file",
                                                  NoErr, {})),
             lists |-> lists]
       ELSE IF HasAny(NewString(lists.Labels), labelsBlackList)
       THEN [error |-> messageWithLine(1, Message("File contains blacklisted labels", NoErr,
                                       BlacklistedLabels(lists.Labels, labelsBlackList))),
             lists |-> lists]
       ELSE [error |-> NoError, lists |-> lists]

\* the body of the loop up to the membership check, for the change c holding
\* the bytes b: the error recorded for the file (NoError when it passes) and
\* its role lists
CheckOwnersBytes(c, b) ==
    LET simple == ParseSimpleConfig(b)
        full == ParseFullConfig(b)
        useFull == UseFull(simple)
        lists == IF useFull THEN AppendFilters(EmptyConfig, full.Filters) ELSE simple.Config
    IN IF useFull /\ full.err # NoErr
       THEN [error |-> CannotParse(full.err, c.Patch), lists |-> EmptyConfig]
       ELSE IF HasAny(NewString(lists.Labels), labelsBlackList)
       THEN [error |-> messageWithLine(1, Message("File contains blacklisted labels", NoErr,
                                       BlacklistedLabels(lists.Labels, labelsBlackList))),
             lists |-> lists]
       ELSE IF Dir(c.Filename) = <<".">> /\ Len(lists.Approvers) = 0
       THEN [error |-> messageWithLine(1, Message("No approvers defined in this root directory OWNERS file",
                                                  NoErr, {})),
             lists |-> lists]
       ELSE [error |-> NoError, lists |-> lists]

\* the loop is over
AfterFile(k) == IF k + 1 > Len(ModifiedOwnersFiles(changes)) THEN "react" ELSE "owners"

\* handle: one pass of the loop over the modified OWNERS files
CheckOwnersFile ==
    /\ pc = "owners"
    /\ LET c == ModifiedOwnersFiles(changes)[idx]
           b == tree[c.Filename]
       IN IF b = ReadFailure
          THEN /\ ReadFailed
               /\ UNCHANGED <<wrongOwnersFiles, members, nonMembers, idx, totalUsers, fetched>>
          ELSE LET v == CheckOwnersBytes(c, b) IN
               IF v.error # NoError
               THEN /\ wrongOwnersFiles' = (c.Filename :> v.error) @@ wrongOwnersFiles
                    /\ logs' = logs \cup (IF v.error.message.kind = "Cannot parse file"
                                          THEN AddedLinesLogs(v.error.message.err, c.Patch)
                                          ELSE {})
                    /\ idx' = idx + 1
                    /\ pc' = AfterFile(idx)
                    /\ UNCHANGED <<members, nonMembers, totalUsers, fetched, ret>>
               ELSE LET lists == <<v.lists.Approvers, v.lists.Reviewers,
                                   v.lists.RequiredReviewers>>
                        checked == (c.Filename :> TotalUsers(repoAliases, lists)) @@ totalUsers
                    IN
                    /\ UNCHANGED <<wrongOwnersFiles, logs>>
                    /\ IF NeedMembers(members)
                       THEN \E o \in FetchOutcomes :
                              LET m == getMembersForOrg(o, roster) IN
                              /\ fetched' = Append(fetched, o)
                              /\ members' = m.members
                              /\ IF m.err
                                 THEN /\ Return("failed to get members")
                                      /\ UNCHANGED <<nonMembers, idx, totalUsers>>
                                 ELSE /\ nonMembers' = nonMembers \cup
                                            getNonMembersFromLists(repoAliases, m.members, lists)
                                      /\ totalUsers' = checked
                                      /\ idx' = idx + 1
                                      /\ pc' = AfterFile(idx)
                                      /\ ret' = ret
                       ELSE /\ nonMembers' = nonMembers \cup
                                  getNonMembersFromLists(repoAliases, members, lists)
                            /\ totalUsers' = checked
                            /\ idx' = idx + 1
                            /\ pc' = AfterFile(idx)
                            /\ UNCHANGED <<members, fetched, ret>>
    /\ UNCHANGED <<event, changes, tree, io, repoAliases, ownersAliasesFileError,
                   wrongOwnersAliasesFilePresent, calls, roster, pr, delivery, concurrent, others>>

SawSomethingButNonMembers(wrong, aliasesWrong, nonMems) ==
    Cardinality(DOMAIN wrong) > 0 \/ aliasesWrong

\* "React if we saw something"
SawSomething(wrong, aliasesWrong, nonMems) ==
    Cardinality(DOMAIN wrong) > 0 \/ aliasesWrong \/ Cardinality(nonMems) > 0

NoReview == [Body |-> [files |-> 0, aliases |-> FALSE, nonMembers |-> {}], Comments |-> {}]

Call(op, ok, review) == [op |-> op, ok |-> ok, review |-> review]

DraftReviewNamingUsers(wrong, aliasesWrong, aliasesError, nonMems) ==
    [Body |-> [files |-> Cardinality(DOMAIN wrong), aliases |-> aliasesWrong,
               nonMembers |-> nonMems],
     Comments |->
        {[Path |-> errFile, Body |-> wrong[errFile].message, Position |-> wrong[errFile].line] :
            errFile \in DOMAIN wrong}
        \cup (IF aliasesWrong
              THEN {[Path |-> <<ownersAliasesFileName>>, Body |-> aliasesError.message,
                     Position |-> aliasesError.line]}
              ELSE {})
        \cup {[Path |-> <<u>>, Body |-> Message("Not a member", NoErr, {}), Position |-> 1] :
                u \in nonMems}]

\* the review: one comment per wrong OWNERS file, one for a wrong
\* OWNERS_ALIASES, and a body naming the count, the alias file and the users
DraftReview(wrong, aliasesWrong, aliasesError, nonMems) ==
    [Body |-> [files |-> Cardinality(DOMAIN wrong), aliases |-> aliasesWrong,
               nonMembers |-> nonMems],
     Comments |->
        {[Path |-> errFile, Body |-> wrong[errFile].message, Position |-> wrong[errFile].line] :
            errFile \in DOMAIN wrong}
        \cup (IF aliasesWrong
              THEN {[Path |-> <<ownersAliasesFileName>>, Body |-> aliasesError.message,
                     Position |-> aliasesError.line]}
              ELSE {})]

\* a failed AddLabel is returned; the review follows a successful one
AddLabelFailureLogged(ok) == pc' = "review" /\ ret' = ret

AddLabelDone(ok) == IF ok THEN pc' = "review" /\ ret' = ret ELSE Return("add label failed")

AddLabelCallsIfAbsent(present, ok) ==
    IF present THEN << >> ELSE <<Call("AddLabel", ok, NoReview)>>

\* the label calls of a run that saw something, the label being present or
\* not: handle does not look at the labels of the pull request
AddLabelCalls(present, ok) == <<Call("AddLabel", ok, NoReview)>>

\* handle: something was seen: ghc.AddLabel
AddLabel ==
    /\ pc = "react"
    /\ SawSomething(wrongOwnersFiles, wrongOwnersAliasesFilePresent, nonMembers)
    /\ \E ok \in BOOLEAN :
        /\ calls' = calls \o AddLabelCalls(prLabel, ok)
        /\ prLabel' = (ok \/ prLabel)
        /\ AddLabelDone(ok)
    /\ UNCHANGED <<event, changes, tree, io, repoAliases, wrongOwnersFiles,
                   ownersAliasesFileError, wrongOwnersAliasesFilePresent, members, nonMembers,
                   idx, totalUsers, fetched, logs, roster, prReviews, delivery, concurrent, others>>

\* handle: the label is on: ghc.CreateReview with the batched review
CreateReview ==
    /\ pc = "review"
    /\ \E ok \in BOOLEAN :
        /\ calls' = Append(calls, Call("CreateReview", ok,
                        DraftReview(wrongOwnersFiles, wrongOwnersAliasesFilePresent,
                                    ownersAliasesFileError, nonMembers)))
        /\ prReviews' = IF ok THEN prReviews + 1 ELSE prReviews
        /\ Return(IF ok THEN "nil" ELSE "error creating a review")
    /\ UNCHANGED <<event, changes, tree, io, repoAliases, wrongOwnersFiles,
                   ownersAliasesFileError, wrongOwnersAliasesFilePresent, members, nonMembers,
                   idx, totalUsers, fetched, logs, roster, prLabel, delivery, concurrent, others>>

\* handle: nothing was seen: ghc.RemoveLabel
RemoveLabel ==
    /\ pc = "react"
    /\ ~SawSomething(wrongOwnersFiles, wrongOwnersAliasesFilePresent, nonMembers)
    /\ \E ok \in BOOLEAN :
        /\ calls' = Append(calls, Call("RemoveLabel", ok, NoReview))
        /\ prLabel' = IF ok THEN FALSE ELSE prLabel
        /\ Return(IF ok THEN "nil" ELSE "failed removing label")
    /\ UNCHANGED <<event, changes, tree, io, repoAliases, wrongOwnersFiles,
                   ownersAliasesFileError, wrongOwnersAliasesFilePresent, members, nonMembers,
                   idx, totalUsers, fetched, logs, roster, prReviews, delivery, concurrent, others>>

\* the next event of the pull request is delivered: a handler starts afresh
Deliver ==
    /\ pc = "done"
    /\ runs < MaxRuns
    /\ runs' = runs + 1
    /\ labelAtStart' = prLabel
    /\ reviewsAtStart' = prReviews
    /\ pc' = "start"
    /\ event' = ""
    /\ changes' = << >>
    /\ tree' = NoTree
    /\ io' = NoIo
    /\ repoAliases' = NoAliases
    /\ wrongOwnersFiles' = NoFiles
    /\ ownersAliasesFileError' = ZeroMessageWithLine
    /\ wrongOwnersAliasesFilePresent' = FALSE
    /\ members' = {}
    /\ nonMembers' = {}
    /\ idx' = 1
    /\ totalUsers' = NoUsers
    /\ ret' = "pending"
    /\ calls' = << >>
    /\ fetched' = << >>
    /\ logs' = {}
    /\ UNCHANGED <<roster, pr, concurrent, others>>

Next ==
    \/ HandlePullRequest
    \/ GetPullRequestChanges
    \/ Clone
    \/ CheckOwnersAliases
    \/ AliasMembers
    \/ LoadOwnersAliases
    \/ CheckOwnersFile
    \/ AddLabel
    \/ CreateReview
    \/ RemoveLabel
    \/ Deliver

Spec == Init /\ [][Next]_vars

\* ------------------------------------------------------- concurrent runs
\* Events of different pull requests are handled at the same time, each by
\* its own call of handle.  A run is given its inputs when it starts (the
\* listing, the checkout, how its roster fetches end and the document
\* served) and moves by the steps of handle; the steps of the runs interleave.
Handlers == {"h1", "h2"}

SharedFrame(h) == "h1"

\* the locals of handle belong to the call: one frame per handler
Frame(h) == h

\* the locals as handle declares them
ZeroLocals ==
    [repoAliases |-> NoAliases, wrongOwnersFiles |-> NoFiles,
     ownersAliasesFileError |-> ZeroMessageWithLine, wrongOwnersAliasesFilePresent |-> FALSE,
     members |-> {}, nonMembers |-> {}]

\* the listings of the concurrent runs: OWNERS and OWNERS_ALIASES, or nothing
ConcurrentLists ==
    {chs \in ChangeLists :
        \A k \in DOMAIN chs : chs[k].Filename \in {<<"OWNERS">>, <<"OWNERS_ALIASES">>}}

ConcurrentTrees(chs) ==
    {t \in Trees(chs) :
        \A f \in DOMAIN t :
            t[f] \in {FlatGood, FlatTeam, BrokenLine4,
                      AliasesTeam, AliasesNone, AliasesBrokenLine4, ReadFailure}}

ConcurrentInputs ==
    UNION {{[changes |-> chs, tree |-> t, fetch |-> o, roster |-> {"alice"}] :
                t \in ConcurrentTrees(chs), o \in {"ok", "getFailed"}} :
           chs \in ConcurrentLists}

\* what a run decided: the call it went for and the review it drafted
Decision(op, review) == [op |-> op, review |-> review]

NoDecision == Decision("none", NoReview)

\* a run about to enter handle with the input in
StartProc(in) ==
    [input |-> in, pc |-> "enter", idx |-> 1, ret |-> "pending",
     outcome |-> [files |-> NoFiles, aliases |-> ZeroMessageWithLine, nonMembers |-> {},
                  decision |-> NoDecision]]

\* handle returns v: the errors, the non-members and the decision of the run
Finish(p, loc, v, decision) ==
    [proc |-> [p EXCEPT !.pc = "done", !.ret = v,
                        !.outcome = [files |-> loc.wrongOwnersFiles,
                                     aliases |-> loc.ownersAliasesFileError,
                                     nonMembers |-> loc.nonMembers,
                                     decision |-> decision]],
     loc |-> loc]

GoOn(p, loc) == [proc |-> p, loc |-> loc]

\* handle, one step of the run p over the locals loc: the run and the locals
\* after the step
HandleStep(p, loc) ==
    LET in == p.input
        chs == in.changes
        files == ModifiedOwnersFiles(chs)
    IN
    CASE p.pc = "enter" ->
            IF NothingToDo(chs) THEN Finish(p, ZeroLocals, "nil", NoDecision)
            ELSE GoOn([p EXCEPT !.pc = IF OwnerAliasesModified(chs) THEN "aliases"
                                       ELSE AfterAliases(chs)],
                      ZeroLocals)
      [] p.pc = "aliases" ->
            LET b == in.tree[<<ownersAliasesFileName>>] IN
            IF b = ReadFailure THEN Finish(p, loc, "nil", NoDecision)
            ELSE LET parsed == ParseAliasesConfig(b)
                     patch == ModifiedOwnerAliasesFile(chs).Patch
                 IN GoOn([p EXCEPT !.pc = AfterAliasesParse(parsed.err)],
                         IF parsed.err # NoErr
                         THEN [loc EXCEPT !.repoAliases = parsed.aliases,
                                          !.ownersAliasesFileError = CannotParse(parsed.err, patch),
                                          !.wrongOwnersAliasesFilePresent = TRUE]
                         ELSE [loc EXCEPT !.repoAliases = parsed.aliases])
      [] p.pc = "aliasMembers" ->
            LET m == IF NeedMembers(loc.members) THEN getMembersForOrg(in.fetch, in.roster)
                     ELSE [members |-> loc.members, err |-> FALSE]
            IN IF m.err
               THEN Finish(p, [loc EXCEPT !.members = m.members], "failed to get members",
                           NoDecision)
               ELSE GoOn([p EXCEPT !.pc = AfterAliases(chs)],
                         [loc EXCEPT !.members = m.members,
                                     !.nonMembers = AliasNonMembers(loc.repoAliases, m.members)])
      [] p.pc = "loadAliases" ->
            LET b == in.tree[<<ownersAliasesFileName>>] IN
            IF b = ReadFailure THEN Finish(p, loc, "nil", NoDecision)
            ELSE LET parsed == ParseAliasesConfig(b) IN
                 Finish(p, [loc EXCEPT !.repoAliases = parsed.aliases],
                        IF parsed.err # NoErr THEN "aliases parse error" ELSE "nil", NoDecision)
      [] p.pc = "owners" ->
            LET c == files[p.idx]
                b == in.tree[c.Filename]
                next == [p EXCEPT !.idx = p.idx + 1,
                                  !.pc = IF p.idx + 1 > Len(files) THEN "react" ELSE "owners"]
            IN IF b = ReadFailure THEN Finish(p, loc, "nil", NoDecision)
               ELSE LET v == CheckOwnersBytes(c, b)
                        m == IF NeedMembers(loc.members)
                             THEN getMembersForOrg(in.fetch, in.roster)
                             ELSE [members |-> loc.members, err |-> FALSE]
                    IN IF v.error # NoError
                       THEN GoOn(next, [loc EXCEPT !.wrongOwnersFiles =
                                            (c.Filename :> v.error) @@ loc.wrongOwnersFiles])
                       ELSE IF m.err
                       THEN Finish(p, [loc EXCEPT !.members = m.members],
                                   "failed to get members", NoDecision)
                       ELSE GoOn(next,
                                 [loc EXCEPT !.members = m.members,
                                             !.nonMembers = loc.nonMembers \cup
                                                getNonMembersFromLists(loc.repoAliases, m.members,
                                                    <<v.lists.Approvers, v.lists.Reviewers,
                                                      v.lists.RequiredReviewers>>)])
      [] p.pc = "react" ->
            IF SawSomething(loc.wrongOwnersFiles, loc.wrongOwnersAliasesFilePresent,
                            loc.nonMembers)
            THEN Finish(p, loc, "nil",
                        Decision("AddLabel",
                                 DraftReview(loc.wrongOwnersFiles,
                                             loc.wrongOwnersAliasesFilePresent,
                                             loc.ownersAliasesFileError, loc.nonMembers)))
            ELSE Finish(p, loc, "nil", Decision("RemoveLabel", NoReview))

\* the run executing alone, from p over loc to its return
RECURSIVE RunAlone(_, _)
RunAlone(p, loc) ==
    IF p.pc = "done" THEN p
    ELSE LET n == HandleStep(p, loc) IN RunAlone(n.proc, n.loc)

Alone(in) == RunAlone(StartProc(in), ZeroLocals)

\* the variables of the handler of successive events
sequential ==
    <<pc, event, changes, tree, io, repoAliases, wrongOwnersFiles, ownersAliasesFileError,
      wrongOwnersAliasesFilePresent, members, nonMembers, idx, totalUsers, ret, calls,
      fetched, logs, roster, prLabel, prReviews, runs, labelAtStart, reviewsAtStart>>

InitConcurrent ==
    /\ proc \in [Handlers -> {StartProc(in) : in \in ConcurrentInputs}]
    /\ frames = [h \in Handlers |-> ZeroLocals]
    /\ icm = << >>
    /\ cpk = << >>
    /\ pc = "done"
    /\ event = ""
    /\ changes = << >>
    /\ tree = NoTree
    /\ io = NoIo
    /\ repoAliases = NoAliases
    /\ wrongOwnersFiles = NoFiles
    /\ ownersAliasesFileError = ZeroMessageWithLine
    /\ wrongOwnersAliasesFilePresent = FALSE
    /\ members = {}
    /\ nonMembers = {}
    /\ idx = 1
    /\ totalUsers = NoUsers
    /\ ret = "pending"
    /\ calls = << >>
    /\ fetched = << >>
    /\ logs = {}
    /\ roster = {"alice"}
    /\ prLabel = FALSE
    /\ prReviews = 0
    /\ runs = 1
    /\ labelAtStart = FALSE
    /\ reviewsAtStart = 0

\* the handler h takes its next step, over the locals of its frame
Advance(h) ==
    LET n == HandleStep(proc[h], frames[Frame(h)]) IN
    /\ proc' = [proc EXCEPT ![h] = n.proc]
    /\ frames' = [frames EXCEPT ![Frame(h)] = n.loc]

EnterHandle ==
    /\ \E h \in Handlers : proc[h].pc = "enter" /\ Advance(h)
    /\ UNCHANGED <<sequential, others>>

ReadOwnersAliases ==
    /\ \E h \in Handlers : proc[h].pc = "aliases" /\ Advance(h)
    /\ UNCHANGED <<sequential, others>>

FetchAliasMembers ==
    /\ \E h \in Handlers : proc[h].pc = "aliasMembers" /\ Advance(h)
    /\ UNCHANGED <<sequential, others>>

ReturnAfterAliases ==
    /\ \E h \in Handlers : proc[h].pc = "loadAliases" /\ Advance(h)
    /\ UNCHANGED <<sequential, others>>

CheckOneOwnersFile ==
    /\ \E h \in Handlers : proc[h].pc = "owners" /\ Advance(h)
    /\ UNCHANGED <<sequential, others>>

Decide ==
    /\ \E h \in Handlers : proc[h].pc = "react" /\ Advance(h)
    /\ UNCHANGED <<sequential, others>>

NextConcurrent ==
    \/ EnterHandle
    \/ ReadOwnersAliases
    \/ FetchAliasMembers
    \/ ReturnAfterAliases
    \/ CheckOneOwnersFile
    \/ Decide

SpecConcurrent == InitConcurrent /\ [][NextConcurrent]_vars

\* ------------------------------------------- the invalidcommitmsg plugin
\* A string is the sequence of its characters.
LetterChars ==
    {"a", "b", "c", "d", "e", "f", "g", "h", "i", "j", "k", "l", "m", "n", "o", "p", "q",
     "r", "s", "t", "u", "v", "w", "x", "y", "z", "C", "F", "R"}

DigitChars == {"0", "1", "2", "3", "4", "5", "6", "7", "8", "9"}

\* \w
WordChars == LetterChars \cup DigitChars \cup {"_"}

\* [\s:]
SpaceOrColonChars == {" ", "\t", "\n", ":"}

\* the words (clos|fix|resolv) with their endings, the first letter in
\* either case
CloseWords ==
    LET lower == {<<"c", "l", "o", "s", "e">>, <<"c", "l", "o", "s", "e", "s">>, <<"c", "l", "o", "s", "e", "d">>, <<"f", "i", "x">>, <<"f", "i", "x", "e", "s">>, <<"f", "i", "x", "e", "d">>, <<"r", "e", "s", "o", "l", "v", "e">>, <<"r", "e", "s", "o", "l", "v", "e", "s">>, <<"r", "e", "s", "o", "l", "v", "e", "d">>}
        upper(c) == CASE c = "c" -> "C" [] c = "f" -> "F" [] c = "r" -> "R"
    IN lower \cup {<<upper(w[1])>> \o Tail(w) : w \in lower}

\* the string s holds the word w from position i on
HasAt(s, i, w) == i + Len(w) - 1 <= Len(s) /\ SubSeq(s, i, i + Len(w) - 1) = w

\* the positions at which a run of one or more characters of the class,
\* started at position j of s, may end
RunEnds(s, j, class) == {e \in j..Len(s) : \A m \in j..e : s[m] \in class}

\* #(\d+) at position p of s
IssueRefAt(s, p) == p + 1 <= Len(s) /\ s[p] = "#" /\ s[p + 1] \in DigitChars

\* closeIssueRegex.MatchString
closeIssueRegex(s) ==
    \E i \in 1..Len(s) : \E w \in CloseWords :
        /\ HasAt(s, i, w)
        /\ \E e1 \in RunEnds(s, i + Len(w), SpaceOrColonChars) :
            \/ IssueRefAt(s, e1 + 1)
            \/ \E e2 \in RunEnds(s, e1 + 1, WordChars) :
                /\ e2 + 1 <= Len(s)
                /\ s[e2 + 1] = "/"
                /\ \E e3 \in RunEnds(s, e2 + 2, WordChars) : IssueRefAt(s, e3 + 1)

\* atMentionRegex.MatchString
atMentionRegex(s) ==
    \E i \in 1..(Len(s) - 1) : s[i] = "@" /\ s[i + 1] \in WordChars \cup {"-"}

\* commit messages
MsgFixBug == <<"f", "i", "x", " ", "b", "u", "g">>
MsgFixesIssue == <<"f", "i", "x", "e", "s", " ", "#", "1">>
MsgClosesIssueOfRepo == <<"C", "l", "o", "s", "e", "s", ":", " ", "k", "/", "t", "#", "1", "2">>
MsgFixingIssue == <<"f", "i", "x", "i", "n", "g", " ", "#", "1">>
MsgFixesUnspaced == <<"f", "i", "x", "e", "s", "#", "1">>
MsgMention == <<"c", "c", " ", "@", "a", "l", "-", "x">>
MsgLoneAt == <<"a", " ", "@", " ", "b">>

Messages == {MsgFixBug, MsgFixesIssue, MsgClosesIssueOfRepo, MsgFixingIssue,
             MsgFixesUnspaced, MsgMention, MsgLoneAt}

\* the SHA of the k-th commit of the pull request
ShaOf == << <<"a", "1", "b", "2", "c", "3", "d", "4">>, <<"e", "5", "f", "6", "a", "7", "b", "8">> >>

\* the commits a listing can hold
CommitLists ==
    {[k \in 1..n |-> [SHA |-> ShaOf[k], Commit |-> [Message |-> ms[k]]]] :
        n \in 0..Len(ShaOf), ms \in [1..Len(ShaOf) -> Messages]}

\* a label, comment or pruning call of a run of one of the two plugins
PluginCall(op, ok) == [op |-> op, ok |-> ok]

IsPRChangedAlsoEdited(a) == a \in {"opened", "reopened", "synchronize", "edited"}

\* isPRChanged
isPRChanged(a) ==
    CASE a = "opened" -> TRUE
      [] a = "reopened" -> TRUE
      [] a = "synchronize" -> TRUE
      [] OTHER -> FALSE

MentionsOnlyInvalid(m) == atMentionRegex(m)

\* the test of the loop over the commits
MessageInvalid(m) == closeIssueRegex(m) \/ atMentionRegex(m)

\* repoCommit.SHA[0:7]
ShortSha(sha) == SubSeq(sha, 1, 7)

\* the loop over the commits: the short SHAs of those with an invalid message
RECURSIVE InvalidCommitSHAs(_)
InvalidCommitSHAs(repoCommits) ==
    IF repoCommits = << >> THEN << >>
    ELSE LET repoCommit == Head(repoCommits) IN
         (IF MessageInvalid(repoCommit.Commit.Message) THEN <<ShortSha(repoCommit.SHA)>>
          ELSE << >>) \o InvalidCommitSHAs(Tail(repoCommits))

AfterCommitsQuietWhenLabelled(has, shas) ==
    IF has /\ Len(shas) = 0 THEN "remove"
    ELSE IF ~has /\ Len(shas) # 0 THEN "add"
    ELSE "return"

\* where handle goes once it has the label and the invalid commits
AfterCommits(has, shas) ==
    IF has /\ Len(shas) = 0 THEN "remove"
    ELSE IF ~has /\ Len(shas) # 0 THEN "add"
    ELSE IF Len(shas) # 0 THEN "comment"
    ELSE "return"

\* the pull request before any event: it may carry the label already
IcmInit ==
    /\ icm \in {[pc |-> "start", action |-> "", label |-> l, commits |-> << >>, comments |-> 0,
                 hasInvalidCommitMsgLabel |-> FALSE, invalidCommitSHAs |-> << >>,
                 calls |-> << >>, logs |-> {}, ret |-> "pending", failed |-> "",
                 runs |-> 1, labelAtStart |-> l, commentsAtStart |-> 0] : l \in BOOLEAN}
    /\ cpk = << >>
    /\ proc = << >>
    /\ frames = << >>
    /\ pc = "done"
    /\ event = ""
    /\ changes = << >>
    /\ tree = NoTree
    /\ io = NoIo
    /\ repoAliases = NoAliases
    /\ wrongOwnersFiles = NoFiles
    /\ ownersAliasesFileError = ZeroMessageWithLine
    /\ wrongOwnersAliasesFilePresent = FALSE
    /\ members = {}
    /\ nonMembers = {}
    /\ idx = 1
    /\ totalUsers = NoUsers
    /\ ret = "pending"
    /\ calls = << >>
    /\ fetched = << >>
    /\ logs = {}
    /\ roster = {"alice"}
    /\ prLabel = FALSE
    /\ prReviews = 0
    /\ runs = 1
    /\ labelAtStart = FALSE
    /\ reviewsAtStart = 0

\* everything but the invalidcommitmsg plugin
IcmFrame == UNCHANGED <<sequential, concurrent, cpk>>

\* handle: an event arrives with the commits the pull request then has
IcmHandle ==
    /\ icm.pc = "start"
    /\ \E a \in EventActions : \E cs \in CommitLists :
        icm' = IF ~isPRChanged(a)
               THEN [icm EXCEPT !.action = a, !.commits = cs, !.pc = "done", !.ret = "nil"]
               ELSE [icm EXCEPT !.action = a, !.commits = cs, !.pc = "labels"]
    /\ IcmFrame

\* handle: gc.GetIssueLabels and github.HasLabel
IcmGetIssueLabels ==
    /\ icm.pc = "labels"
    /\ \E ok \in BOOLEAN :
        icm' = IF ok
               THEN [icm EXCEPT !.hasInvalidCommitMsgLabel = icm.label, !.pc = "commits"]
               ELSE [icm EXCEPT !.pc = "done", !.ret = "GetIssueLabels failed",
                                !.failed = "GetIssueLabels"]
    /\ IcmFrame

\* handle: gc.ListPullRequestCommits and the loop over the commits
IcmListPullRequestCommits ==
    /\ icm.pc = "commits"
    /\ \E ok \in BOOLEAN :
        icm' = IF ok
               THEN LET shas == InvalidCommitSHAs(icm.commits)
                        next == AfterCommits(icm.hasInvalidCommitMsgLabel, shas)
                    IN IF next = "return"
                       THEN [icm EXCEPT !.invalidCommitSHAs = shas, !.pc = "done", !.ret = "nil"]
                       ELSE [icm EXCEPT !.invalidCommitSHAs = shas, !.pc = next]
               ELSE [icm EXCEPT !.pc = "done", !.ret = "ListPullRequestCommits failed",
                                !.failed = "ListPullRequestCommits"]
    /\ IcmFrame

IcmRemoveLabelFailureReturned(ok) == IF ok THEN "prune" ELSE "done"

\* a failed RemoveLabel is logged and the comments are pruned all the same
IcmAfterRemoveLabel(ok) == "prune"

\* handle: the label is there and every commit is valid: gc.RemoveLabel
IcmRemoveLabel ==
    /\ icm.pc = "remove"
    /\ \E ok \in BOOLEAN :
        icm' = [icm EXCEPT !.calls = Append(icm.calls, PluginCall("RemoveLabel", ok)),
                           !.label = IF ok THEN FALSE ELSE icm.label,
                           !.logs = IF ok THEN icm.logs
                                    ELSE icm.logs \cup {"Github failed to remove the following label"},
                           !.pc = IcmAfterRemoveLabel(ok)]
    /\ IcmFrame

\* handle: cp.PruneComments drops the comments that hold commentBody
IcmPruneComments ==
    /\ icm.pc = "prune"
    /\ icm' = [icm EXCEPT !.calls = Append(icm.calls, PluginCall("PruneComments", TRUE)),
                          !.comments = 0, !.pc = "done", !.ret = "nil"]
    /\ IcmFrame

\* handle: the label is missing and a commit is invalid: gc.AddLabel
IcmAddLabel ==
    /\ icm.pc = "add"
    /\ \E ok \in BOOLEAN :
        icm' = [icm EXCEPT !.calls = Append(icm.calls, PluginCall("AddLabel", ok)),
                           !.label = ok \/ icm.label,
                           !.logs = IF ok THEN icm.logs
                                    ELSE icm.logs \cup {"Github failed to add the following label"},
                           !.pc = "comment"]
    /\ IcmFrame

\* handle: a commit is invalid: gc.CreateComment
IcmCreateComment ==
    /\ icm.pc = "comment"
    /\ \E ok \in BOOLEAN :
        icm' = [icm EXCEPT !.calls = Append(icm.calls, PluginCall("CreateComment", ok)),
                           !.comments = IF ok THEN icm.comments + 1 ELSE icm.comments,
                           !.logs = IF ok THEN icm.logs ELSE icm.logs \cup {"Failed to comment"},
                           !.pc = "done", !.ret = "nil"]
    /\ IcmFrame

\* the next event of the pull request is delivered
IcmDeliver ==
    /\ icm.pc = "done"
    /\ icm.runs < MaxRuns
    /\ icm' = [icm EXCEPT !.pc = "start", !.action = "", !.runs = icm.runs + 1,
                          !.hasInvalidCommitMsgLabel = FALSE, !.invalidCommitSHAs = << >>,
                          !.calls = << >>, !.logs = {}, !.ret = "pending", !.failed = "",
                          !.labelAtStart = icm.label, !.commentsAtStart = icm.comments]
    /\ IcmFrame

IcmNext ==
    \/ IcmHandle
    \/ IcmGetIssueLabels
    \/ IcmListPullRequestCommits
    \/ IcmRemoveLabel
    \/ IcmPruneComments
    \/ IcmAddLabel
    \/ IcmCreateComment
    \/ IcmDeliver

SpecInvalidCommitMsg == IcmInit /\ [][IcmNext]_vars

\* ---------------------------------------------------------------- cherrypick
cpUnapprovedLabel == "do-not-merge/cherry-pick-not-approved"

cpApprovedLabel == "cherrypick-approved"

ReleasePrefix == <<"r", "e", "l", "e", "a", "s", "e", "-">>

\* base branches of the pull request, as sequences of characters
BranchRelease1 == ReleasePrefix \o <<"1">>

BranchReleaseBare == ReleasePrefix

BranchReleaseNoHyphen == <<"r", "e", "l", "e", "a", "s", "e">>

BranchMaster == <<"m", "a", "s", "t", "e", "r">>

BranchXRelease == <<"x">> \o ReleasePrefix \o <<"1">>

Branches == {BranchRelease1, BranchReleaseBare, BranchReleaseNoHyphen, BranchMaster,
             BranchXRelease}

\* strings.HasPrefix
HasPrefix(str, prefix) ==
    /\ Len(str) >= Len(prefix)
    /\ SubSeq(str, 1, Len(prefix)) = prefix

\* github.HasLabel
HasLabel(label, issueLabels) == label \in issueLabels

\* handlePR: only the events that indicate opening of the pull request
IsOpening(a) == ~(a # "opened" /\ a # "reopened")

\* what gc.GetIssueLabels hands back: no label at all when it fails
LabelsListed(ok, issueLabels) == IF ok THEN issueLabels ELSE {}

CpListFailureReturned(ok) == IF ok THEN "decide" ELSE "done"

\* a failed GetIssueLabels is logged and handlePR goes on
CpAfterGetIssueLabels(ok) == "decide"

CpDecisionIgnoringUnapproved(approved, unapproved) ==
    IF approved THEN (IF unapproved THEN "remove" ELSE "return")
    ELSE "add"

\* handlePR: what the two labels decide
CpDecision(approved, unapproved) ==
    IF approved THEN (IF unapproved THEN "remove" ELSE "return")
    ELSE IF unapproved THEN "return"
    ELSE "add"

\* the pull request before any event: any base branch, any of the two labels
CpInit ==
    /\ cpk \in {[pc |-> "start", action |-> "", branch |-> b, labels |-> ls, comments |-> 0,
                 listed |-> "", hasCherryPickApprovedLabel |-> FALSE,
                 hasCherryPickUnapprovedLabel |-> FALSE,
                 calls |-> << >>, logs |-> {}, ret |-> "pending", runs |-> 1,
                 labelsAtStart |-> ls, commentsAtStart |-> 0,
                 earlier |-> "none"] :
                    b \in Branches, ls \in SUBSET {cpApprovedLabel, cpUnapprovedLabel}}
    /\ icm = << >>
    /\ proc = << >>
    /\ frames = << >>
    /\ pc = "done"
    /\ event = ""
    /\ changes = << >>
    /\ tree = NoTree
    /\ io = NoIo
    /\ repoAliases = NoAliases
    /\ wrongOwnersFiles = NoFiles
    /\ ownersAliasesFileError = ZeroMessageWithLine
    /\ wrongOwnersAliasesFilePresent = FALSE
    /\ members = {}
    /\ nonMembers = {}
    /\ idx = 1
    /\ totalUsers = NoUsers
    /\ ret = "pending"
    /\ calls = << >>
    /\ fetched = << >>
    /\ logs = {}
    /\ roster = {"alice"}
    /\ prLabel = FALSE
    /\ prReviews = 0
    /\ runs = 1
    /\ labelAtStart = FALSE
    /\ reviewsAtStart = 0

\* everything but the cherrypick plugin
CpFrame == UNCHANGED <<sequential, concurrent, icm>>

\* handlePR: an event arrives; the action and the base branch are looked at
CpHandlePR ==
    /\ cpk.pc = "start"
    /\ \E a \in EventActions :
        cpk' = IF ~IsOpening(a) \/ ~HasPrefix(cpk.branch, ReleasePrefix)
               THEN [cpk EXCEPT !.action = a, !.pc = "done", !.ret = "nil"]
               ELSE [cpk EXCEPT !.action = a, !.pc = "labels"]
    /\ CpFrame

\* handlePR: gc.GetIssueLabels and the two github.HasLabel
CpGetIssueLabels ==
    /\ cpk.pc = "labels"
    /\ \E ok \in BOOLEAN :
        LET issueLabels == LabelsListed(ok, cpk.labels) IN
        cpk' = [cpk EXCEPT
                    !.listed = IF ok THEN "ok" ELSE "failed",
                    !.logs = IF ok THEN cpk.logs ELSE cpk.logs \cup {"failed to list labels"},
                    !.hasCherryPickApprovedLabel = HasLabel(cpApprovedLabel, issueLabels),
                    !.hasCherryPickUnapprovedLabel = HasLabel(cpUnapprovedLabel, issueLabels),
                    !.pc = CpAfterGetIssueLabels(ok)]
    /\ CpFrame

\* handlePR: the tests of the two labels
CpDecide ==
    /\ cpk.pc = "decide"
    /\ LET next == CpDecision(cpk.hasCherryPickApprovedLabel, cpk.hasCherryPickUnapprovedLabel)
       IN cpk' = IF next = "return" THEN [cpk EXCEPT !.pc = "done", !.ret = "nil"]
                 ELSE [cpk EXCEPT !.pc = next]
    /\ CpFrame

\* handlePR: both labels are there: gc.RemoveLabel
CpRemoveLabel ==
    /\ cpk.pc = "remove"
    /\ \E ok \in BOOLEAN :
        cpk' = [cpk EXCEPT
                    !.calls = Append(cpk.calls, PluginCall("RemoveLabel", ok)),
                    !.labels = IF ok THEN cpk.labels \ {cpUnapprovedLabel} ELSE cpk.labels,
                    !.logs = IF ok THEN cpk.logs
                             ELSE cpk.logs \cup {"Github failed to remove the following label"},
                    !.pc = "done", !.ret = "nil"]
    /\ CpFrame

\* handlePR: neither label is there: gc.AddLabel
CpAddLabel ==
    /\ cpk.pc = "add"
    /\ \E ok \in BOOLEAN :
        cpk' = [cpk EXCEPT
                    !.calls = Append(cpk.calls, PluginCall("AddLabel", ok)),
                    !.labels = IF ok THEN cpk.labels \cup {cpUnapprovedLabel} ELSE cpk.labels,
                    !.logs = IF ok THEN cpk.logs
                             ELSE cpk.logs \cup {"Github failed to add the following label"},
                    !.pc = "comment"]
    /\ CpFrame

\* handlePR: gc.CreateComment
CpCreateComment ==
    /\ cpk.pc = "comment"
    /\ \E ok \in BOOLEAN :
        cpk' = [cpk EXCEPT
                    !.calls = Append(cpk.calls, PluginCall("CreateComment", ok)),
                    !.comments = IF ok THEN cpk.comments + 1 ELSE cpk.comments,
                    !.logs = IF ok THEN cpk.logs ELSE cpk.logs \cup {"Failed to comment"},
                    !.pc = "done", !.ret = "nil"]
    /\ CpFrame

\* how the run that ends went, for the run that follows on the same pull request
CpEarlier ==
    IF cpk.listed = "" THEN "skipped"
    ELSE IF cpk.listed = "failed" THEN "listFailed"
    ELSE IF \A k \in 1..Len(cpk.calls) : cpk.calls[k].ok THEN "clean"
    ELSE "callFailed"

\* the next event of the unchanged pull request is delivered
CpDeliver ==
    /\ cpk.pc = "done"
    /\ cpk.runs < MaxRuns
    /\ cpk' = [cpk EXCEPT !.pc = "start", !.action = "", !.runs = cpk.runs + 1,
                          !.listed = "", !.hasCherryPickApprovedLabel = FALSE,
                          !.hasCherryPickUnapprovedLabel = FALSE,
                          !.calls = << >>, !.logs = {}, !.ret = "pending",
                          !.labelsAtStart = cpk.labels, !.commentsAtStart = cpk.comments,
                          !.earlier = CpEarlier]
    /\ CpFrame

CpNext ==
    \/ CpHandlePR
    \/ CpGetIssueLabels
    \/ CpDecide
    \/ CpRemoveLabel
    \/ CpAddLabel
    \/ CpCreateComment
    \/ CpDeliver

SpecCherrypick == CpInit /\ [][CpNext]_vars

\* ------------------------------------------------------------ properties
\* the operations of the label and review calls of the current event, in order
Ops == [k \in DOMAIN calls |-> calls[k].op]

Done == pc = "done"

\* the checkout of the current event succeeded
CheckedOut == io.clone = "ok"

\* names of the changed files, read off the listing
ChangedNames == {changes[k].Filename : k \in DOMAIN changes}

ChangedOwners == {f \in ChangedNames : f[Len(f)] = "OWNERS"}

AliasesChanged == <<"OWNERS_ALIASES">> \in ChangedNames

AliasesFile == tree[<<"OWNERS_ALIASES">>]

\* every file the checkout holds for the handler can be read
AllReadable == \A f \in DOMAIN tree : tree[f] # ReadFailure

\* the violations the current event has recorded
ViolationSeen ==
    DOMAIN wrongOwnersFiles # {} \/ wrongOwnersAliasesFilePresent \/ nonMembers # {}

\* C1: a run whose listing holds OWNERS files and no OWNERS_ALIASES, whose
\* files were all read and whose alias file parsed, has checked every changed
\* OWNERS file and has made its label/review decision when it returns.
C1_FullValidationWithoutAliasChange ==
    (Done /\ ChangedOwners # {} /\ ~AliasesChanged /\ CheckedOut /\ AllReadable
          /\ AliasesFile.err = NoErr)
        => (idx = Cardinality(ChangedOwners) + 1 /\ calls # << >>)

\* C2: a run whose listing holds no file with base name OWNERS and no file
\* named OWNERS_ALIASES returns nil, with no label or review call, no clone
\* and no roster fetch.
C2_NoOwnershipChangeNoAction ==
    (Done /\ io.list = "ok" /\ ChangedOwners = {} /\ ~AliasesChanged)
        => (ret = "nil" /\ calls = << >> /\ io.clone = "no" /\ fetched = << >>)

C2_Witness ==
    /\ Done
    /\ io.list = "ok"
    /\ ChangedNames = {<<"README">>, <<"pkg", "OWNERS_ALIASES">>}
    /\ ret = "nil"

C4_ParseErrorAtLine4Reviewed ==
    \A f \in ChangedOwners :
        (/\ Done
         /\ ChangedOwners = {f}
         /\ ~AliasesChanged
         /\ CheckedOut
         /\ AllReadable
         /\ AliasesFile.err = NoErr
         /\ tree[f] = BrokenLine4
         /\ 4 \in DOMAIN AddedLines(PatchFor(f)).al
         /\ ~labelAtStart)
            => /\ Ops = <<"AddLabel", "CreateReview">>
               /\ Cardinality(calls[2].review.Comments) = 1
               /\ \A c \in calls[2].review.Comments :
                    c.Path = f /\ c.Position = AddedLines(PatchFor(f)).al[4]

\* C5: the pull request carries the label, the only ownership-related change
\* is an OWNERS file that parses, names an approver and lists only members of
\* the roster: the run issues RemoveLabel and no review.
C5_CleanRunRemovesLabel ==
    \A f \in ChangedOwners :
        (/\ Done
         /\ labelAtStart
         /\ ChangedOwners = {f}
         /\ ~AliasesChanged
         /\ CheckedOut
         /\ AllReadable
         /\ AliasesFile.err = NoErr
         /\ tree[f] = FlatGood
         /\ {"alice", "bob"} \subseteq roster)
            => /\ Ops = <<"RemoveLabel">>
               /\ (calls[1].ok => ~prLabel)

\* a label or review call of the current event failed
SomeCallFailed == \E k \in DOMAIN calls : ~calls[k].ok

ListingOrCloneFailed ==
    io.list = "failed" \/ io.clone = "clone failed" \/ io.clone = "checkout failed"

\* the run met a file it could not read
SomeReadFailed == "Failed to read" \in logs

SomeFetchFailed == \E k \in DOMAIN fetched : fetched[k] # "ok"

\* C8: a syntax error of OWNERS_ALIASES is never what the run returns: once
\* the file has been read it is on record as an error of the alias file.
C8_AliasSyntaxErrorLocated ==
    (Done /\ CheckedOut /\ AllReadable /\ AliasesFile.err # NoErr /\ ~SomeFetchFailed)
        => (ret # "aliases parse error" /\ wrongOwnersAliasesFilePresent)

\* C9: a failed roster fetch ends the run at once with a non-nil error and
\* with no label or review call, whatever was recorded before.
C9_RosterFailureAborts ==
    SomeFetchFailed => (Done /\ ret = "failed to get members" /\ calls = << >>)

C9_Witness ==
    /\ Done
    /\ SomeFetchFailed
    /\ DOMAIN wrongOwnersFiles # {}
    /\ wrongOwnersAliasesFilePresent

\* C10: the roster is fetched at most once in a run.
C10_RosterFetchedAtMostOnce == Len(fetched) <= 1

\* the users a configuration names in any of its three roles
Users(config) ==
    {config.Approvers[k] : k \in DOMAIN config.Approvers}
        \cup {config.Reviewers[k] : k \in DOMAIN config.Reviewers}
        \cup {config.RequiredReviewers[k] : k \in DOMAIN config.RequiredReviewers}

\* the flat schema reads the bytes as a declaration that is not empty
FlatDeclares(b) == b.simpleErr = NoErr /\ b.simple # EmptyConfig

\* the OWNERS files the loop of the current event has gone through
GoneThrough == DOMAIN wrongOwnersFiles \cup DOMAIN totalUsers

ParseErrorRecorded(f) ==
    f \in DOMAIN wrongOwnersFiles /\ wrongOwnersFiles[f].message.kind = "Cannot parse file"

\* C11: for every OWNERS file the loop has gone through: bytes the flat
\* schema reads as a non-empty declaration are judged by that declaration and
\* get no parse error; otherwise the filtered schema decides: when it accepts
\* the bytes no parse error is recorded and the users held against the roster
\* are those of all its filters together, and when it rejects them the error
\* recorded for the file is the text of the filtered failure.
C11_FilteredSchemaFallback ==
    \A f \in GoneThrough :
        LET b == tree[f] IN
        /\ FlatDeclares(b)
             => /\ ~ParseErrorRecorded(f)
                /\ f \in DOMAIN totalUsers
                     => totalUsers[f] = Users(b.simple) \ DOMAIN repoAliases
        /\ (~FlatDeclares(b) /\ b.fullErr = NoErr)
             => /\ ~ParseErrorRecorded(f)
                /\ f \in DOMAIN totalUsers
                     => totalUsers[f] =
                            UNION {Users(b.filters[k]) : k \in DOMAIN b.filters}
                                \ DOMAIN repoAliases
        /\ (~FlatDeclares(b) /\ b.fullErr # NoErr)
             => /\ ParseErrorRecorded(f)
                /\ wrongOwnersFiles[f].message.err = b.fullErr

C11_Witness ==
    /\ <<"OWNERS">> \in DOMAIN wrongOwnersFiles
    /\ tree[<<"OWNERS">>] = FilteredBroken
    /\ wrongOwnersFiles[<<"OWNERS">>].message.err = ErrLine4
    /\ <<"pkg", "OWNERS">> \in DOMAIN totalUsers
    /\ tree[<<"pkg", "OWNERS">>] = Filtered
    /\ totalUsers[<<"pkg", "OWNERS">>] = {"alice", "bob"}

\* the bytes parse, under the schema the loop settles on, to a declaration
\* that names no approver
NoApproverDeclared(b) ==
    IF FlatDeclares(b) THEN b.simple.Approvers = << >>
    ELSE b.fullErr = NoErr /\ \A k \in DOMAIN b.filters : b.filters[k].Approvers = << >>

\* C12: a run that was not cut short by a failed read or roster fetch and
\* whose listing holds the root OWNERS file, declaring no approver, has an
\* error on record for that file and has asked for the invalid-owners label.
C12_RootOwnersWithoutApproversViolates ==
    (/\ Done
     /\ CheckedOut
     /\ AllReadable
     /\ ~SomeFetchFailed
     /\ <<"OWNERS">> \in ChangedOwners
     /\ NoApproverDeclared(tree[<<"OWNERS">>]))
        => /\ <<"OWNERS">> \in DOMAIN wrongOwnersFiles
           /\ calls # << >>
           /\ calls[1].op = "AddLabel"

\* C13: a run that reaches its loop with one changed OWNERS file, a flat
\* declaration with an approver, no blacklisted label and only users of the
\* served roster, beside an OWNERS_ALIASES that defines no alias, records no
\* file error, no alias error and no non-member, and issues RemoveLabel.
C13_CleanFlatFileNoViolation ==
    \A f \in ChangedOwners :
        (/\ Done
         /\ CheckedOut
         /\ AllReadable
         /\ ~SomeFetchFailed
         /\ ChangedOwners = {f}
         /\ AliasesChanged
         /\ AliasesFile = AliasesNone
         /\ tree[f] = FlatGood
         /\ {"alice", "bob"} \subseteq roster)
            => /\ ~ViolationSeen
               /\ Ops = <<"RemoveLabel">>

\* the users the bytes list in any role, under the schema the loop settles on
ListedUsers(b) ==
    IF FlatDeclares(b) THEN Users(b.simple)
    ELSE UNION {Users(b.filters[k]) : k \in DOMAIN b.filters}

\* the members of the aliases of the table that the bytes list by name
ReferencedAliasMembers(b, aliases) ==
    UNION {aliases[a] : a \in ListedUsers(b) \cap DOMAIN aliases}

LineNamed(text) == IF text = ErrLine4 THEN 4 ELSE IF text = ErrFlat THEN 2 ELSE 0

\* the error cannot be tied to a line of the patch: its text names no line,
\* the patch cannot be processed, or the patch does not hold the line
Unplaceable(text, patch) ==
    \/ LineNamed(text) = 0
    \/ AddedLines(patch).err
    \/ LineNamed(text) \notin DOMAIN AddedLines(patch).al

\* C15: a parse error on record, of an OWNERS file or of OWNERS_ALIASES,
\* that cannot be tied to a line of the patch of its file sits at position 1,
\* and recording it does not end the run: short of a failed read or roster
\* fetch the run goes through every changed OWNERS file and reaches the
\* decision, which asks for the label.
C15_UnplaceableErrorAtLineOne ==
    /\ \A f \in DOMAIN wrongOwnersFiles :
          (ParseErrorRecorded(f)
             /\ Unplaceable(wrongOwnersFiles[f].message.err, PatchFor(f)))
            => /\ wrongOwnersFiles[f].line = 1
               /\ (Done /\ ~SomeReadFailed /\ ~SomeFetchFailed)
                    => /\ idx = Cardinality(ChangedOwners) + 1
                       /\ calls # << >>
                       /\ calls[1].op = "AddLabel"
    /\ (wrongOwnersAliasesFilePresent
          /\ Unplaceable(ownersAliasesFileError.message.err, PatchFor(<<"OWNERS_ALIASES">>)))
         => /\ ownersAliasesFileError.line = 1
            /\ (Done /\ ~SomeReadFailed /\ ~SomeFetchFailed)
                 => /\ idx = Cardinality(ChangedOwners) + 1
                    /\ calls # << >>
                    /\ calls[1].op = "AddLabel"

C15_Witness ==
    /\ Done
    /\ Ops = <<"AddLabel", "CreateReview">>
    /\ DOMAIN wrongOwnersFiles = {<<"OWNERS">>, <<"pkg", "OWNERS">>}
    /\ wrongOwnersFiles[<<"OWNERS">>] = messageWithLine(1, Message("Cannot parse file", ErrNoLine, {}))
    /\ wrongOwnersFiles[<<"pkg", "OWNERS">>] = messageWithLine(1, Message("Cannot parse file", ErrLine4, {}))
    /\ "Failed to compute added lines" \in logs
    /\ ownersAliasesFileError = messageWithLine(1, Message("Cannot parse file", ErrLine4, {}))

\* the labels the bytes declare, under the schema the loop settles on
ListedLabels(b) ==
    IF FlatDeclares(b) THEN {b.simple.Labels[k] : k \in DOMAIN b.simple.Labels}
    ELSE UNION {{b.filters[j].Labels[k] : k \in DOMAIN b.filters[j].Labels} :
                    j \in DOMAIN b.filters}

BlacklistErrorRecorded(f) ==
    /\ f \in DOMAIN wrongOwnersFiles
    /\ wrongOwnersFiles[f].message.kind = "File contains blacklisted labels"

\* C16: for every OWNERS file the loop has gone through and parsed: when its
\* labels meet the blacklist, the error on record for it is the one about
\* blacklisted labels and lists the labels of the file that are blacklisted,
\* all of them and no other; when they do not, no such error is on record.
C16_BlacklistMessageListsIntersection ==
    \A f \in GoneThrough :
        ~ParseErrorRecorded(f)
            => LET hit == ListedLabels(tree[f]) \cap {"bad", "hold"} IN
               IF hit # {}
               THEN BlacklistErrorRecorded(f) /\ wrongOwnersFiles[f].message.labels = hit
               ELSE ~BlacklistErrorRecorded(f)

C16_Witness ==
    \E f \in DOMAIN wrongOwnersFiles :
        /\ tree[f] = FlatBlacklisted
        /\ wrongOwnersFiles[f] =
              messageWithLine(1, Message("File contains blacklisted labels", NoErr, {"bad"}))

\* the reviews the current event asked for
Reviews == {calls[k].review : k \in {j \in DOMAIN calls : calls[j].op = "CreateReview"}}

\* the files a review of the current event is to comment on
FilesInError ==
    DOMAIN wrongOwnersFiles
        \cup (IF AliasesChanged /\ AliasesFile.err # NoErr THEN {<<"OWNERS_ALIASES">>} ELSE {})

\* C17: a review the run asks for carries one comment for every changed
\* OWNERS file with an error on record, one for OWNERS_ALIASES exactly when
\* that file was changed and did not parse, and no other comment; each sits
\* at the line its error was bound to; the users found missing from the
\* roster are named in the body of the review only.
C17_OneCommentPerFileInError ==
    \A rv \in Reviews :
        /\ {c.Path : c \in rv.Comments} = FilesInError
        /\ Cardinality(rv.Comments) = Cardinality(FilesInError)
        /\ \A c \in rv.Comments :
              IF c.Path = <<"OWNERS_ALIASES">>
              THEN c.Position = ownersAliasesFileError.line
              ELSE c.Position = wrongOwnersFiles[c.Path].line
        /\ rv.Body.nonMembers = nonMembers

C17_Witness ==
    \E rv \in Reviews :
        /\ Cardinality(rv.Comments) = 2
        /\ \E c \in rv.Comments : c.Path = <<"OWNERS">> /\ c.Position = 5
        /\ \E c \in rv.Comments : c.Path = <<"OWNERS_ALIASES">> /\ c.Position = 1
        /\ rv.Body.nonMembers = {"alice", "bob"}

\* the run is past the step that goes through the changed alias file
PastAliases == pc \in {"owners", "react", "review"} \/ calls # << >>

\* C18: once a run whose listing holds OWNERS_ALIASES, read and parsed, is
\* past the alias step, every user of every alias of the file that the served
\* roster lacks is among its non-members, whatever the changed OWNERS files
\* list.
C18_AliasMembersOffRosterReported ==
    (PastAliases /\ AliasesChanged /\ AliasesFile # ReadFailure /\ AliasesFile.err = NoErr)
        => \A a \in DOMAIN AliasesFile.aliases :
              (AliasesFile.aliases[a] \ roster) \subseteq nonMembers

C18_Witness ==
    /\ Done
    /\ Ops = <<"AddLabel", "CreateReview">>
    /\ ChangedOwners = {}
    /\ AliasesChanged
    /\ AliasesFile = AliasesTeam
    /\ roster = {"alice"}
    /\ "bob" \in nonMembers

\* C19: an event whose action is none of opened, reopened and synchronize is
\* over at once: nil is returned and nothing was listed, cloned, fetched,
\* logged, labelled or reviewed.
C19_OtherActionsIgnored ==
    event \notin {"", "opened", "reopened", "synchronize"}
        => /\ Done
           /\ ret = "nil"
           /\ io = NoIo
           /\ changes = << >>
           /\ fetched = << >>
           /\ calls = << >>
           /\ logs = {}
           /\ prLabel = labelAtStart

C19_Witness ==
    /\ Done
    /\ event = "closed"
    /\ ret = "nil"
    /\ labelAtStart
    /\ prReviews = 1

\* C20: under every interleaving of the steps of two concurrent runs, the
\* errors, the non-members, the decision and the returned value of a run
\* that has returned are those of the same run executing alone on its inputs.
C20_ConcurrentRunsDoNotInterfere ==
    \A h \in Handlers :
        proc[h].pc = "done"
            => /\ proc[h].ret = Alone(proc[h].input).ret
               /\ proc[h].outcome = Alone(proc[h].input).outcome

C20_Witness ==
    /\ proc["h1"].pc = "done"
    /\ proc["h1"].outcome.decision.op = "AddLabel"
    /\ DOMAIN proc["h1"].outcome.files # {}
    /\ proc["h2"].pc = "done"
    /\ proc["h2"].outcome.decision.op = "RemoveLabel"
    /\ frames["h1"] # frames["h2"]

\* the error the loop is to record for the file f holding the bytes b, ""
\* when it is to record none: the first that applies of parse failure,
\* blacklisted labels, no approver in a root file
FirstError(f, b) ==
    IF ~FlatDeclares(b) /\ b.fullErr # NoErr THEN "Cannot parse file"
    ELSE IF ListedLabels(b) \cap {"bad", "hold"} # {} THEN "File contains blacklisted labels"
    ELSE IF Len(f) = 1 /\ NoApproverDeclared(b)
    THEN "No approvers defined in this root directory OWNERS file"
    ELSE ""

\* C24: every OWNERS file the loop has gone through has on record the first
\* error that applies to it, in the order parse failure, blacklisted labels,
\* missing root approvers, or none; a file with an error was not held against
\* the roster: the non-members of the run come from the alias file and from
\* the files without error, and every roster fetch is that of the alias step
\* or that of a file without error.
C24_OneErrorPerFileInOrder ==
    /\ \A f \in GoneThrough :
          IF FirstError(f, tree[f]) = ""
          THEN f \notin DOMAIN wrongOwnersFiles /\ f \in DOMAIN totalUsers
          ELSE /\ f \in DOMAIN wrongOwnersFiles
               /\ wrongOwnersFiles[f].message.kind = FirstError(f, tree[f])
               /\ f \notin DOMAIN totalUsers
    /\ nonMembers \subseteq
          ExpandAllAliases(repoAliases) \cup UNION {totalUsers[f] : f \in DOMAIN totalUsers}
    /\ Len(fetched) <= (IF AliasesChanged THEN 1 ELSE 0) + Cardinality(DOMAIN totalUsers)
                          + (IF SomeFetchFailed THEN 1 ELSE 0)

C24_Witness ==
    /\ Done
    /\ Ops = <<"AddLabel", "CreateReview">>
    /\ <<"OWNERS">> \in DOMAIN wrongOwnersFiles
    /\ tree[<<"OWNERS">>] = FlatBlacklisted
    /\ wrongOwnersFiles[<<"OWNERS">>].message.kind = "File contains blacklisted labels"
    /\ nonMembers = {}
    /\ Len(fetched) = 1

C26_BrokenAliasesLeaveEmptyTable ==
    (CheckedOut /\ AliasesChanged /\ pc # "aliases"
        /\ AliasesFile # ReadFailure /\ AliasesFile.err # NoErr)
        => /\ wrongOwnersAliasesFilePresent
           /\ repoAliases = NoAliases
           /\ pc # "aliasMembers" => Len(fetched) >= 1
           /\ (Done /\ ~SomeReadFailed /\ ~SomeFetchFailed)
                => (idx = Cardinality(ChangedOwners) + 1 /\ calls # << >>)
           /\ \A f \in DOMAIN totalUsers :
                /\ totalUsers[f] = ListedUsers(tree[f])
                /\ (ListedUsers(tree[f]) \ roster) \subseteq nonMembers
           /\ nonMembers \subseteq UNION {totalUsers[f] : f \in DOMAIN totalUsers}

C26_Witness ==
    /\ Done
    /\ Ops = <<"AddLabel", "CreateReview">>
    /\ AliasesChanged
    /\ AliasesFile = AliasesBrokenLine4
    /\ \E f \in DOMAIN totalUsers : tree[f] = FlatTeam
    /\ nonMembers = {"team"}

\* ------------------------------------------------- invalidcommitmsg claims
\* the messages of Messages that mention a user or close an issue by keyword
MessagesWithMentionOrClosingKeyword == {MsgFixesIssue, MsgClosesIssueOfRepo, MsgMention}

HasInvalidMessage(cs) ==
    \E k \in 1..Len(cs) : cs[k].Commit.Message \in MessagesWithMentionOrClosingKeyword

IcmCount(op) == Cardinality({k \in 1..Len(icm.calls) : icm.calls[k].op = op})

IcmIssued(op) == IcmCount(op) > 0

IcmCallsSucceeded == \A k \in 1..Len(icm.calls) : icm.calls[k].ok

IcmRunOver == icm.pc = "done" /\ icm.action \in {"opened", "reopened", "synchronize"}

\* C21: a finished run on a change-indicating action whose API calls all
\* succeeded has issued AddLabel exactly when the label was absent and a
\* commit message is invalid, RemoveLabel exactly when the label was present
\* and no message is invalid, each at most once; afterwards the pull request
\* carries the label exactly when the commits this run saw hold an invalid
\* message, whatever the runs before it did.
C21_LabelTracksInvalidMessages ==
    (IcmRunOver /\ icm.failed = "" /\ IcmCallsSucceeded) =>
        /\ IcmIssued("AddLabel") <=> (~icm.labelAtStart /\ HasInvalidMessage(icm.commits))
        /\ IcmIssued("RemoveLabel") <=> (icm.labelAtStart /\ ~HasInvalidMessage(icm.commits))
        /\ IcmCount("AddLabel") <= 1
        /\ IcmCount("RemoveLabel") <= 1
        /\ icm.label <=> HasInvalidMessage(icm.commits)

\* a second run removes the label that the first run added for a closing keyword
C21_Witness ==
    /\ IcmRunOver
    /\ icm.runs = 2
    /\ icm.labelAtStart
    /\ icm.calls = <<PluginCall("RemoveLabel", TRUE), PluginCall("PruneComments", TRUE)>>
    /\ ~icm.label
    /\ Len(icm.commits) = 2
    /\ icm.commits[1].Commit.Message = MsgFixingIssue
    /\ icm.commits[2].Commit.Message = MsgFixesUnspaced

\* C22 as stated: every finished run on a change-indicating action has
\* issued exactly one CreateComment when a commit message is invalid and none
\* when every message is valid.
C22_OneCommentPerInvalidRun ==
    IcmRunOver =>
        IcmCount("CreateComment") = (IF HasInvalidMessage(icm.commits) THEN 1 ELSE 0)

\* C22 amended: a finished run on a change-indicating action whose two reads
\* succeeded has issued exactly one CreateComment when a commit message is
\* invalid, label present or not, and none when every message is valid; the
\* comment is on the pull request when that call succeeded.
C22_OneCommentPerInvalidRunThatReadBoth ==
    (IcmRunOver /\ icm.failed = "") =>
        /\ IcmCount("CreateComment") = (IF HasInvalidMessage(icm.commits) THEN 1 ELSE 0)
        /\ \A k \in 1..Len(icm.calls) :
            (icm.calls[k].op = "CreateComment" /\ icm.calls[k].ok)
                => icm.comments = icm.commentsAtStart + 1
        /\ ~IcmIssued("CreateComment") => icm.comments <= icm.commentsAtStart

\* the label is there already and a commit mentions a user: one more comment
C22_Witness ==
    /\ IcmRunOver
    /\ icm.failed = ""
    /\ icm.labelAtStart
    /\ icm.commentsAtStart = 1
    /\ icm.comments = 2
    /\ icm.calls = <<PluginCall("CreateComment", TRUE)>>
    /\ \E k \in 1..Len(icm.commits) : icm.commits[k].Commit.Message = MsgMention

\* C23: for an action other than opened, reopened and synchronize handle
\* returns nil and has issued no call: the label and the comments of the pull
\* request are as they were.
C23_OtherActionsAreNoOps ==
    (icm.pc = "done" /\ icm.action \notin {"opened", "reopened", "synchronize"}) =>
        /\ icm.ret = "nil"
        /\ icm.calls = << >>
        /\ icm.logs = {}
        /\ icm.label = icm.labelAtStart
        /\ icm.comments = icm.commentsAtStart

\* an edited event on a labelled pull request whose commits are invalid
C23_Witness ==
    /\ icm.pc = "done"
    /\ icm.action = "edited"
    /\ icm.ret = "nil"
    /\ icm.label
    /\ HasInvalidMessage(icm.commits)

\* C27: a run whose GetIssueLabels or ListPullRequestCommits failed returns
\* that error and has issued no AddLabel, RemoveLabel, CreateComment or
\* PruneComments; a run whose reads succeeded returns nil whatever its label
\* and comment calls did, a failed call is logged, the comments are pruned
\* after RemoveLabel and the comment is created after AddLabel even when the
\* label call failed.
C27_ReadErrorsReturnedCallErrorsLogged ==
    icm.pc = "done" =>
        /\ icm.failed = "GetIssueLabels" =>
            icm.ret = "GetIssueLabels failed" /\ icm.calls = << >>
        /\ icm.failed = "ListPullRequestCommits" =>
            icm.ret = "ListPullRequestCommits failed" /\ icm.calls = << >>
        /\ icm.failed # "" =>
            icm.label = icm.labelAtStart /\ icm.comments = icm.commentsAtStart
        /\ icm.failed = "" =>
            /\ icm.ret = "nil"
            /\ IcmIssued("RemoveLabel") => icm.calls[Len(icm.calls)].op = "PruneComments"
            /\ IcmIssued("AddLabel") => icm.calls[Len(icm.calls)].op = "CreateComment"
            /\ IcmCallsSucceeded <=> icm.logs = {}

\* RemoveLabel failed: the label stays, the comments are pruned, nil is returned
C27_Witness ==
    /\ icm.pc = "done"
    /\ icm.ret = "nil"
    /\ icm.calls = <<PluginCall("RemoveLabel", FALSE), PluginCall("PruneComments", TRUE)>>
    /\ icm.logs # {}
    /\ icm.label
    /\ icm.commentsAtStart = 1
    /\ icm.comments = 0

\* ------------------------------------------------------- cherrypick claims
CpOps == [k \in 1..Len(cpk.calls) |-> cpk.calls[k].op]

CpCallsSucceeded == \A k \in 1..Len(cpk.calls) : cpk.calls[k].ok

\* an opened or reopened event of a pull request against a release- branch
CpReleaseOpening ==
    /\ cpk.action \in {"opened", "reopened"}
    /\ cpk.branch \in {BranchRelease1, BranchReleaseBare}

\* what C28 says of the calls of a finished run
CpCallsAsStated ==
    /\ (CpReleaseOpening /\ cpk.listed = "ok") =>
        /\ CpOps = <<"AddLabel", "CreateComment">> <=> cpk.labelsAtStart = {}
        /\ CpOps = <<"RemoveLabel">> <=> cpk.labelsAtStart = {cpApprovedLabel, cpUnapprovedLabel}
        /\ CpOps \in {<<"AddLabel", "CreateComment">>, <<"RemoveLabel">>, << >>}
    /\ ~CpReleaseOpening => cpk.calls = << >> /\ cpk.listed = "" /\ cpk.labels = cpk.labelsAtStart

\* C28 as stated: a finished run has issued the calls the two labels call
\* for and none for another action or branch; after a release-branch opening
\* whose label listing succeeded the unapproved label is present exactly when
\* the approved one is absent, and such a run that follows such a run issues
\* neither AddLabel nor CreateComment.
C28_UnapprovedIffNotApproved ==
    cpk.pc = "done" =>
        /\ CpCallsAsStated
        /\ (CpReleaseOpening /\ cpk.listed = "ok") =>
            /\ cpUnapprovedLabel \in cpk.labels <=> cpApprovedLabel \notin cpk.labels
            /\ cpk.earlier \in {"clean", "callFailed"} =>
                /\ "AddLabel" \notin {CpOps[k] : k \in 1..Len(CpOps)}
                /\ "CreateComment" \notin {CpOps[k] : k \in 1..Len(CpOps)}

\* C28 amended: a finished run has issued the calls the two labels call for
\* and none for another action or branch; after a release-branch opening
\* whose label listing and label call succeeded the unapproved label is
\* present exactly when the approved one is absent, and a release-branch
\* opening that follows such a run on the unchanged pull request issues no
\* call at all when its listing succeeds.
C28_UnapprovedIffNotApprovedWhenCallsSucceed ==
    cpk.pc = "done" =>
        /\ CpCallsAsStated
        /\ (CpReleaseOpening /\ cpk.listed = "ok") =>
            /\ CpCallsSucceeded =>
                (cpUnapprovedLabel \in cpk.labels <=> cpApprovedLabel \notin cpk.labels)
            /\ cpk.earlier = "clean" => cpk.calls = << >> /\ cpk.comments = cpk.commentsAtStart

\* the first run added the label and the comment, the second one does nothing
C28_Witness ==
    /\ cpk.pc = "done"
    /\ cpk.runs = 2
    /\ cpk.earlier = "clean"
    /\ CpReleaseOpening
    /\ cpk.listed = "ok"
    /\ cpk.commentsAtStart = 1
    /\ cpk.labels = {cpUnapprovedLabel}
    /\ cpk.calls = << >>

====
